---- MODULE Spec2Model ----
(***************************************************************************)
(* A model of gpustat-rs: the NVML query engine (src/src/core.rs), the     *)
(* watch loop (src/src/main.rs) and the terminal renderer                  *)
(* (src/src/display.rs).                                                   *)
(*                                                                         *)
(* Conventions.  Option<T> is a sequence of length at most one: None is    *)
(* <<>> and Some(x) is <<x>>.  Result<T, E> is a record [ok, val, err]     *)
(* whose val and err are Options, so that r.val is r.ok() of the source.   *)
(* Text is a TLA+ string, except in shorten_left, whose byte arithmetic is *)
(* modelled on sequences of UTF-8 bytes.                                   *)
(***************************************************************************)
EXTENDS Integers, Sequences, FiniteSets, TLC

VARIABLES
    procs,          \* the host process table, /proc: host pid -> Option(process)
    MAPPING,        \* static MAPPING: OnceLock<HashMap<u32, u32>> of get_process_info
    builds,         \* how many times build_ngid_to_pid_mapping has run
    env_steps,      \* how many processes were created or have exited so far
    budget,         \* what this run explores: [devices, env_steps, iters]
    pc,             \* where main is: "run", "devices", "procs", "print", "sleep", "exit0", "exit1"
    gpu_ids,        \* main's gpu_ids: Option<Vec<u32>>, from --id
    run_once,       \* main's run_once: no --interval given
    iter,           \* the number of the current iteration of main's loop
    ret,            \* what new_query returned in this iteration: Option(Result)
    gpus_to_query,  \* new_query's gpus_to_query
    next_gpu,       \* position of new_query's for loop in gpus_to_query
    meta,           \* new_query's hostname and driver_version
    gpus,           \* new_query's gpus: the device sequence of the Collection
    resps,          \* for each element of gpus, what NVML answered for that device
    cur,            \* get_gpu_info's locals while its process loop runs: Option(record)
    sh_in,          \* shorten_left: its arguments, Option([text, width])
    sh_out,         \* shorten_left: its outcome, Option([panic, val])
    rd_in,          \* renderer: its arguments, Option([stats, opts, tty])
    rd_out,         \* renderer: what print_formatted wrote, Option([panic, lines])
    bm_in,          \* mapping build: a process table and two read_dir orders, Option
    bm_out          \* mapping build: the two mappings built, Option([first, second])

vars == <<procs, MAPPING, builds, env_steps, budget, pc, gpu_ids, run_once, iter, ret,
          gpus_to_query, next_gpu, meta, gpus, resps, cur,
          sh_in, sh_out, rd_in, rd_out, bm_in, bm_out>>

queryVars == <<procs, MAPPING, builds, env_steps, budget, pc, gpu_ids, run_once, iter, ret,
               gpus_to_query, next_gpu, meta, gpus, resps, cur>>
shortenVars == <<sh_in, sh_out>>
renderVars == <<rd_in, rd_out>>
mappingVars == <<bm_in, bm_out>>

---------------------------------------------------------------------------
(* Option and Result *)

None == <<>>
Some(x) == <<x>>
Ok(v) == [ok |-> TRUE, val |-> <<v>>, err |-> <<>>]
Err(e) == [ok |-> FALSE, val |-> <<>>, err |-> <<e>>]

Last(s) == s[Len(s)]

---------------------------------------------------------------------------
(* Bounds of the model *)

\* watch-mode iterations of main's loop that are explored
MaxIters == 2
\* process creations and exits that are explored in one run
MaxEnvSteps == 2
\* the largest device_count the handle reports
MaxDevices == 2

\* A run is explored within one of three budgets: up to MaxDevices devices on
\* a host whose process table stays as it is, for one iteration; or one
\* device, up to MaxIters iterations and up to MaxEnvSteps changes of the
\* process table; or one device, one iteration and a still process table,
\* the device failing any of its queries (partial)
Budgets ==
    { [devices |-> MaxDevices, env_steps |-> 0, iters |-> 1, partial |-> FALSE],
      [devices |-> 1, env_steps |-> MaxEnvSteps, iters |-> MaxIters, partial |-> FALSE],
      [devices |-> 1, env_steps |-> 0, iters |-> 1, partial |-> TRUE] }

---------------------------------------------------------------------------
(* The host process table *)

\* host process ids that occur; 500 and 12345 are the ids of the spec's scenario
PIDs == {500, 12345}

\* a /proc directory entry whose name is not a number ("self", "cpuinfo", ...)
NonNumeric == -1

\* What /proc/<pid>/status says: Ngid and the NStgid values, or an unreadable file
HostStatus(h) == Some([ngid |-> Some(0), nstgid |-> <<h>>])
ContainerStatus(h, n) == Some([ngid |-> Some(0), nstgid |-> <<h, n>>])
NumaStatus(h, g) == Some([ngid |-> Some(g), nstgid |-> <<h>>])
UnreadableStatus == None

\* namespace-local ids and Ngid values that processes carry
NsIds == {500}

\* What procfs and the user database say of a process: owner name, cmdline, stat.comm
Trainer ==
    [uid_name |-> Some("alice"), cmdline |-> Some(<< <<"opt", "train.py">> >>),
     comm |-> Some("python")]
Kernel == [uid_name |-> Some("root"), cmdline |-> Some(<<>>), comm |-> Some("kworker")]
Hidden == [uid_name |-> None, cmdline |-> None, comm |-> None]

Process(img, st) ==
    [uid_name |-> img.uid_name, cmdline |-> img.cmdline, comm |-> img.comm,
     status |-> st]

\* the processes that appear on the host as host pid h
Spawnable(h) ==
    {Process(Trainer, HostStatus(h)), Process(Trainer, UnreadableStatus)}
        \cup {Process(Kernel, ContainerStatus(h, n)) : n \in NsIds}
        \cup {Process(Hidden, NumaStatus(h, g)) : g \in NsIds}

EmptyTable == [h \in PIDs |-> None]

---------------------------------------------------------------------------
(* core.rs: build_ngid_to_pid_mapping *)

\* HashMap::insert: a later insert of the same key replaces the value
Insert(m, k, v) == [x \in DOMAIN m \cup {k} |-> IF x = k THEN v ELSE m[x]]

EmptyMap == [x \in {} |-> 0]

RECURSIVE InsertAll(_, _, _)
\* for ns_pid in nstgid_values { mapping.insert(ns_pid, host_pid) }
InsertAll(m, keys, v) ==
    IF keys = <<>> THEN m
    ELSE InsertAll(Insert(m, keys[1], v), Tail(keys), v)

\* One iteration of the loop over the entries of /proc
ScanEntry(m, table, name) ==
    IF name \notin DOMAIN table THEN m            \* the name is not a u32: continue
    ELSE IF table[name] = None THEN m             \* no status file to read: continue
    ELSE IF table[name][1].status = None THEN m   \* read_to_string failed: continue
    ELSE LET st == table[name][1].status[1]
             m1 == IF st.ngid # None /\ st.ngid[1] # 0
                   THEN Insert(m, st.ngid[1], name)
                   ELSE m
         IN  InsertAll(m1, st.nstgid, name)

RECURSIVE ScanEntries(_, _, _)
ScanEntries(m, table, entries) ==
    IF entries = <<>> THEN m
    ELSE ScanEntries(ScanEntry(m, table, entries[1]), table, Tail(entries))

\* read_dir is Option(the entries in the order the directory yields them);
\* None is a read_dir that failed
build_ngid_to_pid_mapping(table, read_dir) ==
    IF read_dir = None THEN EmptyMap
    ELSE ScanEntries(EmptyMap, table, read_dir[1])

\* The names read_dir("/proc") may yield for a process table, in every order
Live(table) == {h \in DOMAIN table : table[h] # None}

Orderings(S) ==
    {s \in [1..Cardinality(S) -> S] : \A x \in S : \E i \in DOMAIN s : s[i] = x}

ReadDirs(table) ==
    {None} \cup {Some(s) : s \in Orderings(Live(table) \cup {NonNumeric})}

---------------------------------------------------------------------------
(* core.rs: get_process_info *)

\* Path::file_name: the last component, unless the path is empty or ends in ".."
FileName(path) ==
    IF path = <<>> \/ Last(path) = ".." THEN None ELSE Some(Last(path))

\* the closure try_lookup
try_lookup(table, p) ==
    IF p \notin DOMAIN table \/ table[p] = None
    THEN [username |-> None, command |-> "?"]
    ELSE LET process == table[p][1]
             command ==
                 IF process.cmdline = None THEN None
                 ELSE IF process.cmdline[1] = <<>> THEN process.comm
                 ELSE LET n == FileName(process.cmdline[1][1])
                      IN  Some(IF n = None THEN "?" ELSE n[1])
         IN  [username |-> process.uid_name,
              command |-> IF command = None THEN "?" ELSE command[1]]

\* get_process_info as its doc comment (lines 157-158) words it: the mapping is
\* tried only when the direct lookup failed
get_process_info_retry_on_failure(pid, mapping, table) ==
    LET direct == try_lookup(table, pid)
        remap == direct.command = "?" /\ pid \in DOMAIN mapping /\ mapping[pid] # pid
        result == IF remap THEN try_lookup(table, mapping[pid]) ELSE direct
        from_mapping == remap /\ result.command # "?"
    IN  [username |-> result.username,
         command |-> result.command,
         username_from_ngid_mapping |-> from_mapping,
         real_pid |-> IF from_mapping THEN Some(mapping[pid]) ELSE None]

\* get_process_info setting real_pid without the test of line 212
get_process_info_unguarded_real_pid(pid, mapping, table) ==
    LET direct == try_lookup(table, pid)
        remap == pid \in DOMAIN mapping /\ mapping[pid] # pid
        result == IF remap THEN try_lookup(table, mapping[pid]) ELSE direct
        from_mapping == remap /\ result.command # "?"
    IN  [username |-> result.username,
         command |-> result.command,
         username_from_ngid_mapping |-> from_mapping,
         real_pid |-> IF remap THEN Some(mapping[pid]) ELSE None]

\* lines 205-219, given the mapping that MAPPING.get_or_init returned
get_process_info(pid, mapping, table) ==
    LET direct == try_lookup(table, pid)
        remap == pid \in DOMAIN mapping /\ mapping[pid] # pid
        result == IF remap THEN try_lookup(table, mapping[pid]) ELSE direct
        from_mapping == remap /\ result.command # "?"
    IN  [username |-> result.username,
         command |-> result.command,
         username_from_ngid_mapping |-> from_mapping,
         real_pid |-> IF from_mapping THEN Some(mapping[pid]) ELSE None]

---------------------------------------------------------------------------
(* What the NVML handle answers *)

MB == 1048576

\* an entry of a process list: used_gpu_memory is Some(bytes) for Used(bytes)
\* and None for Unavailable
NvProc(pid, used) == [pid |-> pid, used_gpu_memory |-> used]

\* the answers of running_compute_processes and running_graphics_processes
ProcessLists ==
    LET c500 == NvProc(500, Some(1024 * MB + 1))
        c12345 == NvProc(12345, None)
        g500 == NvProc(500, Some(2 * MB))
        g12345 == NvProc(12345, Some(MB - 1))
        no == Err("NotSupported")
    IN  { <<no, no>>, <<Ok(<<>>), no>>, <<no, Ok(<<>>)>>, <<Ok(<<>>), Ok(<<>>)>>,
          <<Ok(<<c500>>), no>>, <<no, Ok(<<g12345>>)>>,
          <<Ok(<<c500, c12345>>), Ok(<<g12345, g500>>)>> }

\* a device that answers every query
FullDevice(comp, graphics) ==
    [device_by_index |-> Ok("device"),
     name |-> Ok("NVIDIA A100"),
     uuid |-> Ok("GPU-1a2b"),
     temperature |-> Ok(72),
     fan_speed |-> Ok(40),
     memory_info |-> Ok([used |-> 1024 * MB + 7, total |-> 2047 * MB]),
     utilization_rates |-> Ok([gpu |-> 85, memory |-> 10]),
     encoder_utilization |-> Ok([utilization |-> 10, sampling_period |-> 1]),
     decoder_utilization |-> Ok([utilization |-> 5, sampling_period |-> 1]),
     power_usage |-> Ok(150999),
     enforced_power_limit |-> Ok(300000),
     running_compute_processes |-> comp,
     running_graphics_processes |-> graphics]

\* a device without the optional telemetry
BareDevice(comp, graphics) ==
    [FullDevice(comp, graphics) EXCEPT
        !.temperature = Err("NotSupported"),
        !.fan_speed = Err("NotSupported"),
        !.utilization_rates = Err("NotSupported"),
        !.encoder_utilization = Err("NotSupported"),
        !.decoder_utilization = Err("NotSupported"),
        !.power_usage = Err("NotSupported"),
        !.enforced_power_limit = Err("NotSupported")]

\* a device one of whose required queries fails
BrokenDevices ==
    LET d == FullDevice(Ok(<<>>), Ok(<<>>))
    IN  { [d EXCEPT !.device_by_index = Err("GPU is lost")],
          [d EXCEPT !.name = Err("Unknown Error")],
          [d EXCEPT !.uuid = Err("Unknown Error")],
          [d EXCEPT !.memory_info = Err("GPU is lost")] }

\* device_by_index fails for an index the handle does not have
NoDevice ==
    [FullDevice(Ok(<<>>), Ok(<<>>)) EXCEPT !.device_by_index = Err("Invalid Argument")]

\* the queries get_gpu_info makes with .ok()
OptionalQueries ==
    {"temperature", "fan_speed", "utilization_rates", "encoder_utilization",
     "decoder_utilization", "power_usage", "enforced_power_limit"}

\* the device d, the queries of F failing
WithFailures(d, F) ==
    [q \in DOMAIN d |-> IF q \in F THEN Err("NotSupported") ELSE d[q]]

\* a device that fails any of its optional queries, its required queries
\* answered or one of them failing
PartialDevices ==
    {WithFailures(d, F) :
        d \in {FullDevice(Ok(<<NvProc(500, Some(2 * MB))>>), Err("NotSupported"))}
                  \cup BrokenDevices,
        F \in SUBSET OptionalQueries}

\* a device whose process lists name a process more than once
RepeatingDevices ==
    {FullDevice(Ok(<<NvProc(500, Some(2 * MB)), NvProc(500, Some(3 * MB))>>),
                Ok(<<NvProc(12345, None), NvProc(500, Some(4 * MB)),
                     NvProc(12345, Some(MB))>>))}

DeviceResponses(index, device_count) ==
    IF index >= device_count THEN {NoDevice}
    ELSE IF budget.partial THEN PartialDevices \cup RepeatingDevices
    ELSE {FullDevice(l[1], l[2]) : l \in ProcessLists}
             \cup {BareDevice(Err("NotSupported"), Err("NotSupported"))}
             \cup BrokenDevices

---------------------------------------------------------------------------
(* core.rs: get_gpu_info *)

\* RequiredError with a `?` on the temperature query as well
RequiredError_temperature(resp) ==
    IF ~resp.device_by_index.ok THEN resp.device_by_index.err
    ELSE IF ~resp.name.ok THEN resp.name.err
    ELSE IF ~resp.uuid.ok THEN resp.uuid.err
    ELSE IF ~resp.temperature.ok THEN resp.temperature.err
    ELSE IF ~resp.memory_info.ok THEN resp.memory_info.err
    ELSE None

\* the first of the `?` queries that fails, in the order the code makes them
RequiredError(resp) ==
    IF ~resp.device_by_index.ok THEN resp.device_by_index.err
    ELSE IF ~resp.name.ok THEN resp.name.err
    ELSE IF ~resp.uuid.ok THEN resp.uuid.err
    ELSE IF ~resp.memory_info.ok THEN resp.memory_info.err
    ELSE None

\* Option::map
Map(Op(_), o) == IF o = None THEN None ELSE Some(Op(o[1]))

GpuField(u) == u.gpu
UtilizationField(u) == u.utilization
Watts(p) == p \div 1000
Megabytes(bytes) == bytes \div MB

\* line 265 with || for &&
ProcessesUnsupported_either(resp) ==
    ~resp.running_compute_processes.ok \/ ~resp.running_graphics_processes.ok

\* comp_result.is_err() && graphics_result.is_err()
ProcessesUnsupported(resp) ==
    ~resp.running_compute_processes.ok /\ ~resp.running_graphics_processes.ok

UnwrapOrDefault(r) == IF r.ok THEN r.val[1] ELSE <<>>

\* the chain with the graphics list first
ProcessChain_graphics_first(resp) ==
    UnwrapOrDefault(resp.running_graphics_processes)
        \o UnwrapOrDefault(resp.running_compute_processes)

\* comp_result.unwrap_or_default().into_iter().chain(graphics_result.unwrap_or_default())
ProcessChain(resp) ==
    UnwrapOrDefault(resp.running_compute_processes)
        \o UnwrapOrDefault(resp.running_graphics_processes)

\* lines 280-294: the entry pushed for one nv_process
ProcessEntry(nv_process, mapping, table) ==
    LET info == get_process_info(nv_process.pid, mapping, table)
    IN  [pid |-> nv_process.pid,
         username |-> info.username,
         command |-> info.command,
         gpu_memory_usage |-> Map(Megabytes, nv_process.used_gpu_memory),
         username_from_ngid_mapping |-> info.username_from_ngid_mapping,
         real_pid |-> info.real_pid]

\* lines 299-314: the GpuStat of a device whose required queries succeeded
GpuStat(resp, index, processes) ==
    [index |-> index,
     name |-> resp.name.val[1],
     uuid |-> resp.uuid.val[1],
     temperature |-> resp.temperature.val,
     fan_speed |-> resp.fan_speed.val,
     utilization |-> Map(GpuField, resp.utilization_rates.val),
     utilization_enc |-> Map(UtilizationField, resp.encoder_utilization.val),
     utilization_dec |-> Map(UtilizationField, resp.decoder_utilization.val),
     power_draw |-> Map(Watts, resp.power_usage.val),
     power_limit |-> Map(Watts, resp.enforced_power_limit.val),
     memory_used |-> Megabytes(resp.memory_info.val[1].used),
     memory_total |-> Megabytes(resp.memory_info.val[1].total),
     processes |-> processes,
     available |-> TRUE]

---------------------------------------------------------------------------
(* core.rs: GpuStatCollection::new_query *)

\* the placeholder without its available: false
Placeholder_available(index, e) ==
    [index |-> index, name |-> "((Error: " \o e \o "))", uuid |-> "",
     temperature |-> None, fan_speed |-> None, utilization |-> None,
     utilization_enc |-> None, utilization_dec |-> None, power_draw |-> None,
     power_limit |-> None, memory_used |-> 0, memory_total |-> 0,
     processes |-> None, available |-> TRUE]

\* the placeholder with the error text not wrapped in "((Error: ...))"
Placeholder_bare_name(index, e) ==
    [index |-> index, name |-> e, uuid |-> "",
     temperature |-> None, fan_speed |-> None, utilization |-> None,
     utilization_enc |-> None, utilization_dec |-> None, power_draw |-> None,
     power_limit |-> None, memory_used |-> 0, memory_total |-> 0,
     processes |-> None, available |-> FALSE]

\* lines 74-89: the GpuStat pushed for a device whose get_gpu_info failed
Placeholder(index, e) ==
    [index |-> index,
     name |-> "((Error: " \o e \o "))",
     uuid |-> "",
     temperature |-> None,
     fan_speed |-> None,
     utilization |-> None,
     utilization_enc |-> None,
     utilization_dec |-> None,
     power_draw |-> None,
     power_limit |-> None,
     memory_used |-> 0,
     memory_total |-> 0,
     processes |-> None,
     available |-> FALSE]

\* (0..device_count).collect()
Range(n) == [i \in 1..n |-> i - 1]

RECURSIVE SortedInsert(_, _)
SortedInsert(s, x) ==
    IF s = <<>> THEN <<x>>
    ELSE IF x = s[1] THEN s
    ELSE IF x < s[1] THEN <<x>> \o s
    ELSE <<s[1]>> \o SortedInsert(Tail(s), x)

RECURSIVE SortedSet(_)
SortedSet(s) == IF s = <<>> THEN <<>> ELSE SortedInsert(SortedSet(Tail(s)), s[1])

\* lines 64-67 with the selection sorted and its repetitions dropped
GpusToQuery_sorted(ids, device_count) ==
    IF ids # None THEN SortedSet(ids[1]) ELSE Range(device_count)

\* lines 64-67
GpusToQuery(ids, device_count) ==
    IF ids # None THEN ids[1] ELSE Range(device_count)

\* a cell that is written by every call
GetOrInit_always(cell, fresh) == Some(fresh)

\* OnceLock::get_or_init: the cell after the call, `fresh` being what the
\* initializer returns if it is run
GetOrInit(cell, fresh) == IF cell = None THEN Some(fresh) ELSE cell

---------------------------------------------------------------------------
(* main.rs: main and run_gpustat *)

\* one token of the --id argument: a device index, or text that is no number
IdTokens(devices) == (0..devices - 1) \cup {NonNumeric}

IdArgs(devices) == UNION {[1..n -> IdTokens(devices)] : n \in 0..devices}

IsIndex(tok) == tok # NonNumeric

\* lines 105-109: s.split(',').filter_map(|x| x.trim().parse().ok()).collect()
ParseIds(arg) == Map(LAMBDA toks : SelectSeq(toks, IsIndex), arg)

HandleErrors == {"Driver Not Loaded", "Unknown Error"}

\* what hostname::get() and nvml.sys_driver_version() answer
\* Utc::now(), as print_formatted formats it
Now == "2026-11-05 10:00:00"

HostAnswers ==
    { [hostname |-> Ok("node1"), sys_driver_version |-> Ok("535.54")],
      [hostname |-> Err("io"), sys_driver_version |-> Err("Unknown Error")] }

QueryInit ==
    /\ procs = [EmptyTable EXCEPT ![500] = Some(Process(Trainer, HostStatus(500)))]
    /\ MAPPING = None
    /\ builds = 0
    /\ env_steps = 0
    /\ budget \in Budgets
    /\ pc = "run"
    /\ \E arg \in {None} \cup {Some(a) : a \in IdArgs(budget.devices)} :
         gpu_ids = ParseIds(arg)
    /\ run_once \in BOOLEAN
    /\ iter = 1
    /\ ret = None
    /\ gpus_to_query = <<>>
    /\ next_gpu = 1
    /\ meta = None
    /\ gpus = <<>>
    /\ resps = <<>>
    /\ cur = None

\* run_gpustat line 173: Nvml::init() fails; main prints the error and exits 1
NvmlInitFails ==
    /\ pc = "run"
    /\ pc' = "exit1"
    /\ UNCHANGED <<budget, procs, MAPPING, builds, env_steps, gpu_ids, run_once, iter, ret,
                   gpus_to_query, next_gpu, meta, gpus, resps, cur>>

\* new_query line 58: device_count()? fails, new_query returns the error
DeviceCountFails ==
    /\ pc = "run"
    /\ \E e \in HandleErrors : ret' = Some(Err(e))
    /\ pc' = "exit1"
    /\ UNCHANGED <<budget, procs, MAPPING, builds, env_steps, gpu_ids, run_once, iter,
                   gpus_to_query, next_gpu, meta, gpus, resps, cur>>

\* new_query lines 58-69: up to the for loop
NewQueryBegin ==
    /\ pc = "run"
    /\ \E n \in 0..budget.devices, host \in HostAnswers :
         /\ meta' = Some([device_count |-> n,
                          hostname |-> IF host.hostname.ok THEN host.hostname.val[1]
                                       ELSE "unknown",
                          driver_version |-> host.sys_driver_version.val])
         /\ gpus_to_query' = GpusToQuery(gpu_ids, n)
    /\ next_gpu' = 1
    /\ gpus' = <<>>
    /\ resps' = <<>>
    /\ pc' = "devices"
    /\ UNCHANGED <<budget, procs, MAPPING, builds, env_steps, gpu_ids, run_once, iter, ret, cur>>

\* new_query lines 73-90: get_gpu_info returned Err(e)
GetGpuInfoFails ==
    /\ pc = "devices"
    /\ next_gpu <= Len(gpus_to_query)
    /\ LET index == gpus_to_query[next_gpu]
       IN  \E resp \in DeviceResponses(index, meta[1].device_count) :
             /\ RequiredError(resp) # None
             /\ gpus' = Append(gpus, Placeholder(index, RequiredError(resp)[1]))
             /\ resps' = Append(resps, resp)
    /\ next_gpu' = next_gpu + 1
    /\ UNCHANGED <<budget, procs, MAPPING, builds, env_steps, pc, gpu_ids, run_once, iter, ret,
                   gpus_to_query, meta, cur>>

\* get_gpu_info with nothing to iterate in its process loop: both process
\* queries failed (line 266), or the chained lists are empty
GetGpuInfoNoProcess ==
    /\ pc = "devices"
    /\ next_gpu <= Len(gpus_to_query)
    /\ LET index == gpus_to_query[next_gpu]
       IN  \E resp \in DeviceResponses(index, meta[1].device_count) :
             /\ RequiredError(resp) = None
             /\ ProcessesUnsupported(resp) \/ ProcessChain(resp) = <<>>
             /\ gpus' = Append(gpus,
                    GpuStat(resp, index,
                            IF ProcessesUnsupported(resp) THEN None ELSE Some(<<>>)))
             /\ resps' = Append(resps, resp)
    /\ next_gpu' = next_gpu + 1
    /\ UNCHANGED <<budget, procs, MAPPING, builds, env_steps, pc, gpu_ids, run_once, iter, ret,
                   gpus_to_query, meta, cur>>

\* get_gpu_info lines 230-269: up to the first iteration of the process loop
GetGpuInfoBegin ==
    /\ pc = "devices"
    /\ next_gpu <= Len(gpus_to_query)
    /\ LET index == gpus_to_query[next_gpu]
       IN  \E resp \in DeviceResponses(index, meta[1].device_count) :
             /\ RequiredError(resp) = None
             /\ ~ProcessesUnsupported(resp)
             /\ ProcessChain(resp) # <<>>
             /\ cur' = Some([index |-> index, resp |-> resp,
                             chain |-> ProcessChain(resp),
                             seen_pids |-> {}, processes |-> <<>>])
    /\ pc' = "procs"
    /\ UNCHANGED <<budget, procs, MAPPING, builds, env_steps, gpu_ids, run_once, iter, ret,
                   gpus_to_query, next_gpu, meta, gpus, resps>>

\* The end of one iteration of the process loop: the loop goes on, or, the
\* chain exhausted, get_gpu_info returns Ok and new_query pushes the stat
LoopOn(seen, processes) ==
    LET c == cur[1]
    IN  IF Tail(c.chain) # <<>>
        THEN /\ cur' = Some([c EXCEPT !.chain = Tail(c.chain), !.seen_pids = seen,
                                      !.processes = processes])
             /\ UNCHANGED <<pc, gpus, resps, next_gpu>>
        ELSE /\ cur' = None
             /\ gpus' = Append(gpus, GpuStat(c.resp, c.index, Some(processes)))
             /\ resps' = Append(resps, c.resp)
             /\ next_gpu' = next_gpu + 1
             /\ pc' = "devices"

\* lines 276-278: the pid was seen before, continue
ProcessLoopSkip ==
    /\ pc = "procs"
    /\ Head(cur[1].chain).pid \in cur[1].seen_pids
    /\ LoopOn(cur[1].seen_pids, cur[1].processes)
    /\ UNCHANGED <<budget, procs, MAPPING, builds, env_steps, gpu_ids, run_once, iter, ret,
                   gpus_to_query, meta>>

\* lines 276-294: a pid not seen before is resolved by get_process_info, whose
\* first call in the program builds the mapping from /proc as it is then
ProcessLoopResolve ==
    /\ pc = "procs"
    /\ LET nv_process == Head(cur[1].chain)
       IN  /\ nv_process.pid \notin cur[1].seen_pids
           /\ \E read_dir \in ReadDirs(procs) :
                /\ MAPPING' = GetOrInit(MAPPING, build_ngid_to_pid_mapping(procs, read_dir))
                /\ builds' = IF MAPPING = None THEN builds + 1 ELSE builds
                /\ LoopOn(cur[1].seen_pids \cup {nv_process.pid},
                          Append(cur[1].processes,
                                 ProcessEntry(nv_process, MAPPING'[1], procs)))
    /\ UNCHANGED <<budget, procs, env_steps, gpu_ids, run_once, iter, ret, gpus_to_query, meta>>

\* new_query lines 94-99: the loop is over, new_query returns the Collection
NewQueryReturn ==
    /\ pc = "devices"
    /\ next_gpu > Len(gpus_to_query)
    /\ ret' = Some(Ok([hostname |-> meta[1].hostname,
                       driver_version |-> meta[1].driver_version,
                       query_time |-> Now,
                       gpus |-> gpus]))
    /\ pc' = "print"
    /\ UNCHANGED <<budget, procs, MAPPING, builds, env_steps, gpu_ids, run_once, iter,
                   gpus_to_query, next_gpu, meta, gpus, resps, cur>>

\* run_gpustat lines 179-185 and main lines 148-159: the output is written
\* (what is written is the renderer's part, below); main leaves or sleeps
PrintStats ==
    /\ pc = "print"
    /\ pc' = IF run_once THEN "exit0" ELSE "sleep"
    /\ UNCHANGED <<budget, procs, MAPPING, builds, env_steps, gpu_ids, run_once, iter, ret,
                   gpus_to_query, next_gpu, meta, gpus, resps, cur>>

\* run_gpustat line 180 or 182 fails; main prints the error and exits 1
PrintFails ==
    /\ pc = "print"
    /\ pc' = "exit1"
    /\ UNCHANGED <<budget, procs, MAPPING, builds, env_steps, gpu_ids, run_once, iter, ret,
                   gpus_to_query, next_gpu, meta, gpus, resps, cur>>

\* main lines 159-165 and 146: the sleep is over, the loop runs again and
\* the Collection of the last iteration is gone
NextIteration ==
    /\ pc = "sleep"
    /\ iter < budget.iters
    /\ iter' = iter + 1
    /\ pc' = "run"
    /\ ret' = None
    /\ gpus_to_query' = <<>>
    /\ next_gpu' = 1
    /\ meta' = None
    /\ gpus' = <<>>
    /\ resps' = <<>>
    /\ UNCHANGED <<budget, procs, MAPPING, builds, env_steps, gpu_ids, run_once, cur>>

Running == pc \notin {"exit0", "exit1"}

\* the environment: a process is created on the host
ProcessCreated ==
    /\ Running
    /\ env_steps < budget.env_steps
    /\ \E h \in PIDs :
         /\ procs[h] = None
         /\ \E p \in Spawnable(h) : procs' = [procs EXCEPT ![h] = Some(p)]
    /\ env_steps' = env_steps + 1
    /\ UNCHANGED <<budget, MAPPING, builds, pc, gpu_ids, run_once, iter, ret,
                   gpus_to_query, next_gpu, meta, gpus, resps, cur>>

\* the environment: a process of the host exits
ProcessExited ==
    /\ Running
    /\ env_steps < budget.env_steps
    /\ \E h \in PIDs :
         /\ procs[h] # None
         /\ procs' = [procs EXCEPT ![h] = None]
    /\ env_steps' = env_steps + 1
    /\ UNCHANGED <<budget, MAPPING, builds, pc, gpu_ids, run_once, iter, ret,
                   gpus_to_query, next_gpu, meta, gpus, resps, cur>>

\* the renderer's variables are not the query engine's
RenderIdle == UNCHANGED <<shortenVars, renderVars, mappingVars>>

Init ==
    /\ QueryInit
    /\ sh_in = None /\ sh_out = None /\ rd_in = None /\ rd_out = None
    /\ bm_in = None /\ bm_out = None

Next ==
    \/ NvmlInitFails /\ RenderIdle
    \/ DeviceCountFails /\ RenderIdle
    \/ NewQueryBegin /\ RenderIdle
    \/ GetGpuInfoFails /\ RenderIdle
    \/ GetGpuInfoNoProcess /\ RenderIdle
    \/ GetGpuInfoBegin /\ RenderIdle
    \/ ProcessLoopSkip /\ RenderIdle
    \/ ProcessLoopResolve /\ RenderIdle
    \/ NewQueryReturn /\ RenderIdle
    \/ PrintStats /\ RenderIdle
    \/ PrintFails /\ RenderIdle
    \/ NextIteration /\ RenderIdle
    \/ ProcessCreated /\ RenderIdle
    \/ ProcessExited /\ RenderIdle

Spec == Init /\ [][Next]_vars

---------------------------------------------------------------------------
(* display.rs: shorten_left *)

(* A Rust str is a sequence of UTF-8 bytes here.  A byte below 0x80 is the  *)
(* one-character string of its ASCII character, any other byte is "x" and   *)
(* its two hexadecimal digits.                                              *)

\* the bytes 0x80..0xBF, which continue a character
IsContinuation(b) == Len(b) = 3 /\ Head(b) = "x" /\ SubSeq(b, 2, 2) \in {"8", "9", "A", "B"}

\* str::is_char_boundary
is_char_boundary(text, i) ==
    i = 0 \/ i = Len(text) \/ (i < Len(text) /\ ~IsContinuation(text[i + 1]))

\* the placeholder "…" of format_line, U+2026
Ellipsis == <<"xE2", "x80", "xA6">>

\* a call returns a String or panics
Returns(v) == [panic |-> FALSE, val |-> v]
Panics == [panic |-> TRUE, val |-> <<>>]

\* &text[from..to], which panics unless both ends are character boundaries
Slice(text, from, to) ==
    IF is_char_boundary(text, from) /\ is_char_boundary(text, to)
    THEN Returns(SubSeq(text, from + 1, to))
    ELSE Panics

shorten_left(text, width, placeholder) ==
    IF width = 0 THEN Returns(<<>>)
    ELSE IF Len(text) <= width THEN Returns(text)
    ELSE IF width <= Len(placeholder) THEN Slice(placeholder, 0, width)
    ELSE LET tail == Slice(text, Len(text) - (width - Len(placeholder)), Len(text))
         IN  IF tail.panic THEN Panics ELSE Returns(placeholder \o tail.val)

\* the longest text, in characters, and the widest column that are explored
MaxChars == 4
MaxWidth == 6

\* the characters texts are made of: two of one byte and one of two, U+00E9
Alphabet == {<<"A">>, <<"0">>, <<"xC3", "xA9">>}

RECURSIVE Texts(_)
\* the texts of at most n characters
Texts(n) ==
    IF n = 0 THEN {<<>>}
    ELSE Texts(n - 1) \cup {t \o c : t \in Texts(n - 1), c \in Alphabet}

\* the query engine at rest, for the specifications of the renderer
QueryOff ==
    /\ procs = EmptyTable /\ MAPPING = None /\ builds = 0 /\ env_steps = 0
    /\ budget = [devices |-> 0, env_steps |-> 0, iters |-> 0, partial |-> FALSE]
    /\ pc = "off" /\ gpu_ids = None /\ run_once = TRUE /\ iter = 0 /\ ret = None
    /\ gpus_to_query = <<>> /\ next_gpu = 1 /\ meta = None /\ gpus = <<>>
    /\ resps = <<>> /\ cur = None

ShortenInit ==
    /\ QueryOff
    /\ rd_in = None /\ rd_out = None
    /\ bm_in = None /\ bm_out = None
    /\ \E text \in Texts(MaxChars), width \in 0..MaxWidth :
         sh_in = Some([text |-> text, width |-> width])
    /\ sh_out = None

\* format_line line 73: shorten_left(&self.name, gpu_width, "…")
ShortenLeft ==
    /\ sh_in # None
    /\ sh_out = None
    /\ sh_out' = Some(shorten_left(sh_in[1].text, sh_in[1].width, Ellipsis))
    /\ UNCHANGED <<sh_in, queryVars, renderVars, mappingVars>>

ShortenNext == ShortenLeft

SpecShorten == ShortenInit /\ [][ShortenNext]_vars

---------------------------------------------------------------------------
(* display.rs: formatting *)

DEFAULT_GPUNAME_WIDTH == 16
NOT_SUPPORTED == "Not Supported"

\* The bytes of a String of the model; the names rendered here are ASCII
Encode(str) == [i \in 1..Len(str) |-> SubSeq(str, i, i)]

RECURSIVE Decode(_)
\* The String of a sequence of bytes, one character of the model for each
\* character: U+2026, which no string of the model can hold, is written "~"
Decode(bytes) ==
    IF bytes = <<>> THEN ""
    ELSE IF Len(Head(bytes)) = 1 THEN Head(bytes) \o Decode(Tail(bytes))
    ELSE IF Len(bytes) >= 3 /\ SubSeq(bytes, 1, 3) = Ellipsis
         THEN "~" \o Decode(SubSeq(bytes, 4, Len(bytes)))
    ELSE "?" \o Decode(Tail(bytes))

RECURSIVE Spaces(_)
Spaces(n) == IF n <= 0 THEN "" ELSE " " \o Spaces(n - 1)

\* format!("{:>w$}", s): s padded on the left to w characters
RJust(str, w) == Spaces(w - Len(str)) \o str

\* opt_repr
opt_repr(v, none) == IF v = None THEN none ELSE ToString(v[1])

\* rjust(opt_repr(v, "??"), 3)
Field3(v) == RJust(opt_repr(v, "??"), 3)

\* The colored crate: text wrapped in an ANSI style, ESC written "^[", when
\* the crate colorizes at all (it decides that from the environment)
Paint(colorize, code, str) ==
    IF colorize THEN "^[[" \o code \o "m" \o str \o "^[[0m" ELSE str

\* format_process with show_username = opts.show_user alone
format_process_user_only_on_request(p, opts, use_color, colorize) ==
    LET username == IF p.username = None THEN "--" ELSE p.username[1]
        user == IF ~opts.show_user THEN ""
                ELSE IF use_color
                THEN Paint(colorize, IF p.username_from_ngid_mapping THEN "32" ELSE "90",
                           username)
                ELSE username
        cmd == IF ~opts.show_cmd THEN ""
               ELSE (IF opts.show_user THEN ":" ELSE "")
                        \o (IF use_color THEN Paint(colorize, "36", p.command)
                            ELSE p.command)
        pid == IF ~opts.show_pid THEN ""
               ELSE "/" \o (IF p.real_pid = None THEN ToString(p.pid)
                            ELSE ToString(p.pid) \o "->" \o ToString(p.real_pid[1]))
        mem_str == IF p.gpu_memory_usage = None THEN "?"
                   ELSE ToString(p.gpu_memory_usage[1])
        mem == IF use_color THEN "(" \o Paint(colorize, "33", mem_str) \o "M)"
               ELSE "(" \o mem_str \o "M)"
    IN  " " \o user \o cmd \o pid \o mem

format_process(p, opts, use_color, colorize) ==
    LET show_username == opts.show_user \/ ~opts.show_cmd
        username == IF p.username = None THEN "--" ELSE p.username[1]
        user == IF ~show_username THEN ""
                ELSE IF use_color
                THEN Paint(colorize, IF p.username_from_ngid_mapping THEN "32" ELSE "90",
                           username)
                ELSE username
        cmd == IF ~opts.show_cmd THEN ""
               ELSE (IF show_username THEN ":" ELSE "")
                        \o (IF use_color THEN Paint(colorize, "36", p.command)
                            ELSE p.command)
        pid == IF ~opts.show_pid THEN ""
               ELSE "/" \o (IF p.real_pid = None THEN ToString(p.pid)
                            ELSE ToString(p.pid) \o "->" \o ToString(p.real_pid[1]))
        mem_str == IF p.gpu_memory_usage = None THEN "?"
                   ELSE ToString(p.gpu_memory_usage[1])
        mem == IF use_color THEN "(" \o Paint(colorize, "33", mem_str) \o "M)"
               ELSE "(" \o mem_str \o "M)"
    IN  " " \o user \o cmd \o pid \o mem

RECURSIVE FormatProcesses(_, _, _, _)
\* lines 190-192
FormatProcesses(procs_, opts, use_color, colorize) ==
    IF procs_ = <<>> THEN ""
    ELSE format_process(Head(procs_), opts, use_color, colorize)
             \o FormatProcesses(Tail(procs_), opts, use_color, colorize)

\* lines 183-195 with "(Not Supported)" for an empty list as well
ProcessSegment_empty_as_unsupported(stat, opts, use_color, colorize) ==
    IF opts.no_processes THEN ""
    ELSE " |" \o (IF stat.processes = None \/ stat.processes = Some(<<>>)
                  THEN " (" \o NOT_SUPPORTED \o ")"
                  ELSE FormatProcesses(stat.processes[1], opts, use_color, colorize))

\* lines 183-195: the process segment
ProcessSegment(stat, opts, use_color, colorize) ==
    IF opts.no_processes THEN ""
    ELSE " |" \o (IF stat.processes = None THEN " (" \o NOT_SUPPORTED \o ")"
                  ELSE FormatProcesses(stat.processes[1], opts, use_color, colorize))

\* Some(x) if x < limit
Below(v, limit) == v # None /\ v[1] < limit

\* lines 63-181: the line up to the memory field, given the shortened name
Fields(stat, name, opts, use_color, colorize) ==
    LET gpu_width == IF opts.gpuname_width = None THEN DEFAULT_GPUNAME_WIDTH
                     ELSE opts.gpuname_width[1]
        index == "[" \o ToString(stat.index) \o "] "
        name_colored == Paint(colorize, IF stat.available THEN "34" ELSE "31", name)
        temp_str == Field3(stat.temperature)
        fan_str == Field3(stat.fan_speed)
        util_display == Field3(stat.utilization) \o " %"
        enc_str == Field3(stat.utilization_enc)
        dec_str == Field3(stat.utilization_dec)
        pow_str == Field3(stat.power_draw)
        limit_str == Field3(stat.power_limit)
        \* d as f32 / l as f32 < 0.4, exact for the wattages of a device
        low_power == /\ stat.power_draw # None /\ stat.power_limit # None
                     /\ stat.power_limit[1] > 0
                     /\ 10 * stat.power_draw[1] < 4 * stat.power_limit[1]
    IN  (IF use_color THEN Paint(colorize, "36", index) ELSE index)
        \o (IF gpu_width > 0
            THEN RJust(IF use_color THEN name_colored ELSE name, gpu_width) \o " | "
            ELSE "")
        \o (IF ~use_color \/ stat.temperature = None THEN temp_str
            ELSE Paint(colorize, IF stat.temperature[1] < 50 THEN "31" ELSE "1;31",
                       temp_str))
        \o "°C, "
        \o (IF ~opts.show_fan_speed THEN ""
            ELSE (IF use_color
                  THEN Paint(colorize, IF Below(stat.fan_speed, 30) THEN "36" ELSE "1;36",
                             fan_str)
                  ELSE fan_str) \o " %, ")
        \o (IF use_color
            THEN Paint(colorize, IF Below(stat.utilization, 30) THEN "32" ELSE "1;32",
                       util_display)
            ELSE util_display)
        \o (IF ~opts.show_codec THEN ""
            ELSE " (E: "
                 \o (IF use_color
                     THEN Paint(colorize,
                                IF Below(stat.utilization_enc, 50) THEN "32" ELSE "1;32",
                                enc_str)
                     ELSE enc_str)
                 \o " %, D: "
                 \o (IF use_color
                     THEN Paint(colorize,
                                IF Below(stat.utilization_dec, 50) THEN "32" ELSE "1;32",
                                dec_str)
                     ELSE dec_str)
                 \o " %)")
        \o (IF ~opts.show_power THEN ""
            ELSE ",  "
                 \o (IF use_color
                     THEN Paint(colorize, IF low_power THEN "35" ELSE "1;35", pow_str)
                     ELSE pow_str)
                 \o " "
                 \o (IF ~opts.show_power_limit THEN ""
                     ELSE "/ "
                          \o (IF use_color THEN Paint(colorize, "35", limit_str)
                              ELSE limit_str)
                          \o " W"))
        \o " | "
        \o (IF use_color
            THEN Paint(colorize, "1;33", RJust(ToString(stat.memory_used), 5))
                 \o " / "
                 \o Paint(colorize, "33", RJust(ToString(stat.memory_total), 5))
                 \o " MB"
            ELSE RJust(ToString(stat.memory_used), 5) \o " / "
                 \o RJust(ToString(stat.memory_total), 5) \o " MB")

\* GpuStat::format_line: the line, unless shorten_left panics
format_line(stat, opts, use_color, colorize) ==
    LET gpu_width == IF opts.gpuname_width = None THEN DEFAULT_GPUNAME_WIDTH
                     ELSE opts.gpuname_width[1]
        name == IF gpu_width > 0
                THEN shorten_left(Encode(stat.name), gpu_width, Ellipsis)
                ELSE Returns(<<>>)
    IN  IF name.panic THEN Panics
        ELSE Returns(Fields(stat, Decode(name.val), opts, use_color, colorize)
                         \o ProcessSegment(stat, opts, use_color, colorize))

RECURSIVE Body(_, _, _, _)
\* lines 294-296: the lines printed for the devices, up to a panic
Body(devices, opts, use_color, colorize) ==
    IF devices = <<>> THEN [panic |-> FALSE, lines |-> <<>>]
    ELSE LET line == format_line(Head(devices), opts, use_color, colorize)
             rest == Body(Tail(devices), opts, use_color, colorize)
         IN  IF line.panic THEN [panic |-> TRUE, lines |-> <<>>]
             ELSE [panic |-> rest.panic, lines |-> <<line.val>> \o rest.lines]

\* lines 257-263
UseColor(opts, is_terminal) ==
    IF opts.no_color THEN FALSE ELSE IF opts.force_color THEN TRUE ELSE is_terminal

Max(S) == CHOOSE x \in S : \A y \in S : y <= x

\* lines 265-272
GpuWidth(stats, opts) ==
    IF opts.gpuname_width # None THEN opts.gpuname_width[1]
    ELSE Max({Len(Encode(stats.gpus[i].name)) : i \in 1..Len(stats.gpus)}
                 \cup {DEFAULT_GPUNAME_WIDTH})

\* lines 278-291
Header(stats, opts, use_color, colorize) ==
    LET driver == IF stats.driver_version = None THEN "N/A" ELSE stats.driver_version[1]
    IN  IF opts.no_header THEN <<>>
        ELSE IF use_color
        THEN << Paint(colorize, "1;37", stats.hostname) \o "  " \o stats.query_time
                    \o "  " \o Paint(colorize, "2", driver) >>
        ELSE << stats.hostname \o "  " \o stats.query_time \o "  " \o driver >>

\* lines 298-304
NoGpus(use_color, colorize) ==
    IF use_color THEN Paint(colorize, "33", "(No GPUs are available)")
    ELSE "(No GPUs are available)"

\* print_formatted without lines 298-304
print_formatted_no_message(stats, opts, is_terminal, colorize) ==
    LET use_color == UseColor(opts, is_terminal)
        width_opts == [opts EXCEPT !.gpuname_width = Some(GpuWidth(stats, opts))]
        body == Body(stats.gpus, width_opts, use_color, colorize)
    IN  [panic |-> body.panic,
         lines |-> Header(stats, opts, use_color, colorize) \o body.lines]

\* GpuStatCollection::print_formatted: the lines written to stdout, and
\* whether a panic ended the writing
print_formatted(stats, opts, is_terminal, colorize) ==
    LET use_color == UseColor(opts, is_terminal)
        width_opts == [opts EXCEPT !.gpuname_width = Some(GpuWidth(stats, opts))]
        body == Body(stats.gpus, width_opts, use_color, colorize)
    IN  [panic |-> body.panic,
         lines |-> Header(stats, opts, use_color, colorize) \o body.lines
                       \o (IF ~body.panic /\ stats.gpus = <<>>
                           THEN <<NoGpus(use_color, colorize)>> ELSE <<>>)]

---------------------------------------------------------------------------
(* The renderer on its own: a Collection, display options and a terminal *)

\* the --gpuname-width values tried, besides its absence
Widths == {0, 2, 8}

\* main.rs lines 112-136: the DisplayOptions main builds. show_power_limit is
\* set only with show_power, and main has left when both color flags are set
Options ==
    {o \in [show_cmd : BOOLEAN, show_user : BOOLEAN, show_pid : BOOLEAN,
            show_fan_speed : BOOLEAN, show_codec : BOOLEAN, show_power : BOOLEAN,
            show_power_limit : BOOLEAN, no_processes : BOOLEAN, no_header : BOOLEAN,
            gpuname_width : {None} \cup {Some(w) : w \in Widths},
            force_color : BOOLEAN, no_color : BOOLEAN] :
        /\ o.show_power_limit => o.show_power
        /\ ~(o.force_color /\ o.no_color)}

\* process 500, found under its own id
Alice ==
    [pid |-> 500, username |-> Some("alice"), command |-> "train.py",
     gpu_memory_usage |-> Some(2048), username_from_ngid_mapping |-> FALSE,
     real_pid |-> None]

\* process 500, found through the mapping as host process 12345; NVML did
\* not tell its memory
Bob ==
    [pid |-> 500, username |-> Some("bob"), command |-> "python",
     gpu_memory_usage |-> None, username_from_ngid_mapping |-> TRUE,
     real_pid |-> Some(12345)]

\* thermal 72, utilization 85, memory 4096/8192, one process
Populated ==
    [GpuStat(FullDevice(Ok(<<>>), Ok(<<>>)), 0, Some(<<Alice>>)) EXCEPT
        !.memory_used = 4096, !.memory_total = 8192]

TwoProcesses ==
    [GpuStat(FullDevice(Ok(<<>>), Ok(<<>>)), 1, Some(<<Bob, Alice>>)) EXCEPT
        !.name = "NVIDIA GeForce RTX 3090", !.temperature = Some(45)]

Unsupported == GpuStat(BareDevice(Err("NotSupported"), Err("NotSupported")), 1, None)

SupportedEmpty == GpuStat(BareDevice(Ok(<<>>), Ok(<<>>)), 1, Some(<<>>))

Lost == Placeholder(1, "GPU is lost")

Collections ==
    {[hostname |-> "node1", driver_version |-> Some("535.54"), query_time |-> Now,
      gpus |-> g] :
        g \in {<<>>, <<Populated>>, <<TwoProcesses>>, <<Unsupported>>, <<SupportedEmpty>>,
               <<Lost>>, <<Populated, Lost>>, <<Populated, TwoProcesses>>}}
        \cup {[hostname |-> "unknown", driver_version |-> None, query_time |-> Now,
               gpus |-> g] : g \in {<<>>, <<Populated>>}}

RenderInit ==
    /\ QueryOff
    /\ sh_in = None /\ sh_out = None
    /\ bm_in = None /\ bm_out = None
    /\ \E stats \in Collections, opts \in Options, tty \in BOOLEAN, colorize \in BOOLEAN :
         rd_in = Some([stats |-> stats, opts |-> opts, is_terminal |-> tty,
                       colorize |-> colorize])
    /\ rd_out = None

\* run_gpustat line 180: stats.print_formatted(opts)
PrintFormatted ==
    /\ rd_in # None /\ rd_out = None
    /\ rd_out' = Some(print_formatted(rd_in[1].stats, rd_in[1].opts, rd_in[1].is_terminal,
                                      rd_in[1].colorize))
    /\ UNCHANGED <<rd_in, queryVars, shortenVars, mappingVars>>

RenderNext == PrintFormatted

SpecRender == RenderInit /\ [][RenderNext]_vars

---------------------------------------------------------------------------
(* build_ngid_to_pid_mapping on its own: one process table, scanned twice *)

\* namespace-local ids and Ngid values of the tables scanned: pid 1 of a
\* container, and an id that is also a host pid
SnapshotNsIds == {1, 500}

\* what the status file of host process h may say
Statuses(h) ==
    {HostStatus(h), UnreadableStatus}
        \cup {ContainerStatus(h, n) : n \in SnapshotNsIds}
        \cup {NumaStatus(h, g) : g \in SnapshotNsIds}

\* the process tables scanned
Snapshots ==
    {t \in [PIDs -> {None} \cup {Some(Process(Trainer, st)) :
                                    st \in UNION {Statuses(h) : h \in PIDs}}] :
        \A h \in PIDs : t[h] # None => t[h][1].status \in Statuses(h)}

MappingInit ==
    /\ QueryOff
    /\ sh_in = None /\ sh_out = None
    /\ rd_in = None /\ rd_out = None
    /\ \E table \in Snapshots :
         \E first, second \in Orderings(Live(table) \cup {NonNumeric}) :
             bm_in = Some([table |-> table, first |-> first, second |-> second])
    /\ bm_out = None

\* get_process_info line 200, twice over the same /proc: the directory
\* yields its entries in the order first, then in the order second
BuildTwice ==
    /\ bm_in # None /\ bm_out = None
    /\ bm_out' = Some([first |-> build_ngid_to_pid_mapping(bm_in[1].table,
                                                           Some(bm_in[1].first)),
                       second |-> build_ngid_to_pid_mapping(bm_in[1].table,
                                                            Some(bm_in[1].second))])
    /\ UNCHANGED <<bm_in, queryVars, shortenVars, renderVars>>

MappingNext == BuildTwice

SpecMapping == MappingInit /\ [][MappingNext]_vars

---------------------------------------------------------------------------
(* Properties of the query engine, checked under Spec *)

\* the Collection new_query returned, when it returned Ok
Returned == ret # None /\ ret[1].ok
Collection == ret[1].val[1]

OptionalMetrics ==
    {"temperature", "fan_speed", "utilization", "utilization_enc", "utilization_dec",
     "power_draw", "power_limit"}

\* The metrics of a GpuStat that hold a value: an Option holds one when it is
\* Some, memory_used and memory_total are u64 and always hold one
SetMetrics(stat) ==
    {f \in OptionalMetrics : stat[f] # None} \cup {"memory_used", "memory_total"}

\* every ProcessAttribution built so far in this iteration
Entries ==
    UNION {{gpus[i].processes[1][j] : j \in 1..Len(gpus[i].processes[1])} :
              i \in {k \in 1..Len(gpus) : gpus[k].processes # None}}
        \cup (IF cur = None THEN {}
              ELSE {cur[1].processes[j] : j \in 1..Len(cur[1].processes)})

\* C1: new_query returns an error if and only if device_count failed (meta is
\* set exactly when device_count succeeded, and no error is returned after
\* that); when it returns Ok, the Collection holds one sample per element of
\* the selection, the i-th for the i-th selected index, and a sample is
\* unavailable exactly when get_gpu_info failed for that device.
C1_OnlyDeviceCountFails ==
    /\ (ret # None /\ ~ret[1].ok) => (meta = None /\ pc = "exit1")
    /\ meta # None => (ret = None \/ ret[1].ok)
    /\ pc \in {"print", "sleep", "exit0"} => Returned
    /\ Returned =>
         /\ Len(Collection.gpus) = Len(gpus_to_query)
         /\ Len(resps) = Len(gpus_to_query)
         /\ gpus_to_query =
                (IF gpu_ids # None THEN gpu_ids[1] ELSE Range(meta[1].device_count))
         /\ \A i \in 1..Len(gpus_to_query) :
              /\ Collection.gpus[i].index = gpus_to_query[i]
              /\ Collection.gpus[i].available = (RequiredError(resps[i]) = None)

\* C1's case: a returned Collection of two samples, one of them unavailable
C1_Witness ==
    /\ Returned
    /\ Len(Collection.gpus) = 2
    /\ \E i, j \in 1..2 : ~Collection.gpus[i].available /\ Collection.gpus[j].available

\* what C2 says of every sample whose sampling failed, but for the metrics
C2_PlaceholderIdentity(i) ==
    /\ gpus[i].index = gpus_to_query[i]
    /\ gpus[i].name = "((Error: " \o RequiredError(resps[i])[1] \o "))"
    /\ gpus[i].uuid = ""
    /\ gpus[i].processes = None
    /\ ~gpus[i].available

Failed == {i \in 1..Len(gpus) : RequiredError(resps[i]) # None}

\* C2 (as amended): the sample substituted for a device whose sampling failed
\* carries the device's index, the name "((Error: <message>))", an empty
\* unique id, an unset process list and unset thermal, fan, utilization,
\* encoder, decoder, power draw and power limit; its memory used and total are
\* not unset but 0.
C2_Placeholder ==
    \A i \in Failed :
        /\ C2_PlaceholderIdentity(i)
        /\ SetMetrics(gpus[i]) = {"memory_used", "memory_total"}
        /\ gpus[i].memory_used = 0
        /\ gpus[i].memory_total = 0

\* C2 as stated: memory used and total are unset like the other metrics
C2_AsStated ==
    \A i \in Failed : C2_PlaceholderIdentity(i) /\ SetMetrics(gpus[i]) = {}

\* C2's case: a device whose memory_info query failed has its placeholder
C2_Witness ==
    \E i \in Failed : resps[i].name.ok /\ ~resps[i].memory_info.ok /\ ~gpus[i].available

\* A step in which get_process_info is called, the pid it is called with,
\* and the entry built from what it returned
CallStep ==
    /\ pc = "procs"
    /\ Head(cur[1].chain).pid \notin cur[1].seen_pids
    /\ cur' # cur
CalledPid == Head(cur[1].chain).pid
CallEntry ==
    IF cur' # None THEN Last(cur'[1].processes)
    ELSE Last(Last(gpus').processes[1])

\* the mapping sends pid to another id
Remapped(m, pid) == pid \in DOMAIN m /\ m[pid] # pid

C4_ViaMapping ==
    [][CallStep =>
         LET m == MAPPING'[1]
             pid == CalledPid
             e == CallEntry
             via == Remapped(m, pid) /\ try_lookup(procs, m[pid]).command # "?"
         IN  /\ e.username_from_ngid_mapping = via
             /\ e.real_pid = (IF via THEN Some(m[pid]) ELSE None)
             /\ e.real_pid # Some(pid)
             /\ (pid = 500 /\ Remapped(m, 500) /\ m[500] = 12345
                     /\ try_lookup(procs, 12345).command # "?")
                    => (e.real_pid = Some(12345) /\ e.username_from_ngid_mapping)]_vars

\* C4's case: the scenario's entry, reported id 500 resolved through
\* 500 -> 12345
C4_Witness ==
    /\ MAPPING # None
    /\ Remapped(MAPPING[1], 500)
    /\ MAPPING[1][500] = 12345
    /\ \E e \in Entries :
         e.pid = 500 /\ e.real_pid = Some(12345) /\ e.username_from_ngid_mapping

\* C5: the mapping is built at most once, by the first get_process_info call,
\* and never changes afterwards, whatever processes are created or exit and
\* however many iterations main's loop makes.
C5_BuiltOnce ==
    [][/\ MAPPING # None => MAPPING' = MAPPING
       /\ builds' <= 1
       /\ (builds' = 1) = (MAPPING' # None)
       /\ MAPPING' # MAPPING => (CallStep /\ MAPPING = None)
       /\ (CallStep /\ MAPPING = None) => MAPPING' # None]_vars

\* C5's case: in the second iteration, after the mapping was built, a process
\* whose namespace-local id is 500 runs on the host, the mapping has no entry
\* for 500, and the reported id 500 got an entry without a real_pid
C5_Witness ==
    /\ iter = 2
    /\ MAPPING # None
    /\ 500 \notin DOMAIN MAPPING[1]
    /\ \E h \in PIDs \ {500} :
         /\ procs[h] # None
         /\ procs[h][1].status # None
         /\ \E k \in 1..Len(procs[h][1].status[1].nstgid) :
              procs[h][1].status[1].nstgid[k] = 500
    /\ \E e \in Entries : e.pid = 500 /\ e.real_pid = None

\* C6: for a successfully sampled device the process list is None exactly
\* when both process queries failed, and a supported list is empty exactly
\* when the successful queries report no process.
C6_TriState ==
    \A i \in 1..Len(gpus) :
        gpus[i].available =>
            LET c == resps[i].running_compute_processes
                g == resps[i].running_graphics_processes
                reported == (IF c.ok THEN Len(c.val[1]) ELSE 0)
                                + (IF g.ok THEN Len(g.val[1]) ELSE 0)
            IN  /\ (gpus[i].processes = None) = (~c.ok /\ ~g.ok)
                /\ gpus[i].processes # None
                       => ((gpus[i].processes[1] = <<>>) = (reported = 0))

\* C6's case: one query fails, the other reports no process, and one query
\* fails while the other reports a process
C6_Witness ==
    /\ Len(gpus) = 2
    /\ ~resps[1].running_graphics_processes.ok
    /\ gpus[1].processes = Some(<<>>)
    /\ ~resps[2].running_compute_processes.ok
    /\ gpus[2].processes # None
    /\ gpus[2].processes # Some(<<>>)

\* the device indices of the returned Collection, in its order
Indices == [i \in 1..Len(Collection.gpus) |-> Collection.gpus[i].index]

\* C7 (as amended): the device sequence is in query order with one sample per
\* element of the selection: an explicit selection keeps the order and the
\* repetitions the caller passed, the default is 0..device_count-1 ascending.
C7_QueryOrder ==
    Returned =>
        Indices = (IF gpu_ids # None THEN gpu_ids[1]
                   ELSE [i \in 1..meta[1].device_count |-> i - 1])

\* C7 as stated: the sequence is in ascending device-index order, one sample
\* per selected index, whatever the selection
C7_AsStated ==
    Returned =>
        /\ Len(Indices) = Len(GpusToQuery(gpu_ids, meta[1].device_count))
        /\ \A i, j \in 1..Len(Indices) : i < j => Indices[i] <= Indices[j]

\* C7's case: the selection 1,0 was queried
C7_Witness ==
    /\ Returned
    /\ gpu_ids = Some(<<1, 0>>)
    /\ Len(Collection.gpus) = 2

\* the four queries get_gpu_info makes with `?` all succeeded
RequiredOk(resp) ==
    resp.device_by_index.ok /\ resp.name.ok /\ resp.uuid.ok /\ resp.memory_info.ok

\* the field an optional query fills
FieldOf(query) ==
    CASE query = "temperature" -> "temperature"
      [] query = "fan_speed" -> "fan_speed"
      [] query = "utilization_rates" -> "utilization"
      [] query = "encoder_utilization" -> "utilization_enc"
      [] query = "decoder_utilization" -> "utilization_dec"
      [] query = "power_usage" -> "power_draw"
      [] query = "enforced_power_limit" -> "power_limit"

\* what the field holds when its query answered v
ValueOf(query, v) ==
    CASE query \in {"temperature", "fan_speed"} -> v
      [] query = "utilization_rates" -> v.gpu
      [] query \in {"encoder_utilization", "decoder_utilization"} -> v.utilization
      [] query \in {"power_usage", "enforced_power_limit"} -> v \div 1000

\* C12: a device's sample succeeds (is not replaced by the placeholder) if
\* and only if device_by_index, name, uuid and memory_info all succeeded,
\* whichever of the seven optional queries failed; in a sample that
\* succeeded, an optional field is unset exactly when its own query failed
\* and otherwise holds what its own query returned, and name, uuid and the
\* memory fields hold what their queries returned.
C12_OptionalSwallowed ==
    \A i \in 1..Len(gpus) :
        LET resp == resps[i]
            stat == gpus[i]
        IN  /\ stat.available <=> RequiredOk(resp)
            /\ RequiredOk(resp) =>
                   /\ stat.name = resp.name.val[1]
                   /\ stat.uuid = resp.uuid.val[1]
                   /\ stat.memory_used = resp.memory_info.val[1].used \div MB
                   /\ stat.memory_total = resp.memory_info.val[1].total \div MB
                   /\ \A q \in OptionalQueries :
                          stat[FieldOf(q)] = IF resp[q].ok
                                             THEN Some(ValueOf(q, resp[q].val[1]))
                                             ELSE None

\* C12's case: a sample succeeded although its temperature query, and only
\* that one, failed
C12_Witness ==
    \E i \in 1..Len(gpus) :
        /\ gpus[i].available
        /\ {q \in OptionalQueries : ~resps[i][q].ok} = {"temperature"}
        /\ gpus[i].temperature = None
        /\ gpus[i].fan_speed = Some(40)

\* the compute list followed by the graphics list, a failed query counting
\* as an empty list
Concatenation(resp) ==
    (IF resp.running_compute_processes.ok THEN resp.running_compute_processes.val[1]
     ELSE <<>>)
        \o (IF resp.running_graphics_processes.ok
            THEN resp.running_graphics_processes.val[1] ELSE <<>>)

\* the positions of a list where a pid occurs for the first time
FirstSeen(list) ==
    {k \in 1..Len(list) : \A j \in 1..(k - 1) : list[j].pid # list[k].pid}

\* the n-th smallest element of a set of positions
Nth(S, n) == CHOOSE k \in S : Cardinality({j \in S : j <= k}) = n

\* C13: a supported process list holds one entry per distinct pid of the
\* compute list followed by the graphics list (a failed query counting as an
\* empty list), in the order of first occurrence; no two entries share a
\* pid; each entry carries the memory of the first occurrence of its pid, so
\* a pid reported by both queries keeps the memory of its compute entry.
C13_Dedup ==
    \A i \in 1..Len(gpus) :
        gpus[i].available /\ gpus[i].processes # None =>
            LET list == Concatenation(resps[i])
                entries == gpus[i].processes[1]
                compute == resps[i].running_compute_processes
            IN  /\ Len(entries) = Cardinality(FirstSeen(list))
                /\ \A a, b \in 1..Len(entries) : a # b => entries[a].pid # entries[b].pid
                /\ \A n \in 1..Len(entries) :
                       LET first == list[Nth(FirstSeen(list), n)]
                       IN  /\ entries[n].pid = first.pid
                           /\ entries[n].gpu_memory_usage =
                                  IF first.used_gpu_memory = None THEN None
                                  ELSE Some(first.used_gpu_memory[1] \div MB)
                /\ compute.ok =>
                       \A n \in 1..Len(entries) :
                           \A k \in FirstSeen(compute.val[1]) :
                               compute.val[1][k].pid = entries[n].pid =>
                                   entries[n].gpu_memory_usage =
                                       IF compute.val[1][k].used_gpu_memory = None THEN None
                                       ELSE Some(compute.val[1][k].used_gpu_memory[1] \div MB)

\* C13's case: both queries reported pids 500 and 12345, in opposite orders;
\* the list has 500 first, with the 1024 MB of its compute entry
C13_Witness ==
    \E i \in 1..Len(gpus) :
        /\ gpus[i].available /\ gpus[i].processes # None
        /\ Len(Concatenation(resps[i])) = 4
        /\ Len(gpus[i].processes[1]) = 2
        /\ gpus[i].processes[1][1].pid = 500
        /\ gpus[i].processes[1][1].gpu_memory_usage = Some(1024)
        /\ gpus[i].processes[1][2].pid = 12345

---------------------------------------------------------------------------
(* Properties of shorten_left, checked under SpecShorten *)

\* C8: for every text and every width, shorten_left(text, width, "…")
\* completes without aborting, also for the widths 1 and 2; its result has
\* length exactly width when text is longer than width, is text unchanged
\* when text is not longer than width, and is empty when width is 0.
\* (Lengths are what str::len measures, bytes, as in the function's tests.)
C8_TruncationLaw ==
    sh_out # None =>
        LET text == sh_in[1].text
            width == sh_in[1].width
            out == sh_out[1]
        IN  /\ ~out.panic
            /\ Len(text) > width => Len(out.val) = width
            /\ Len(text) <= width => out.val = text
            /\ width = 0 => out.val = <<>>

---------------------------------------------------------------------------
(* Properties of the renderer, checked under SpecRender *)

Rendered == rd_out # None

\* str::ends_with
EndsWith(str, suffix) ==
    Len(suffix) <= Len(str) /\ SubSeq(str, Len(str) - Len(suffix) + 1, Len(str)) = suffix

\* The populated device alone was rendered without color, its processes shown
\* and no pid asked for, and the writing was not ended by a panic
PopulatedPlain ==
    /\ Rendered
    /\ rd_in[1].stats.gpus = <<Populated>>
    /\ ~UseColor(rd_in[1].opts, rd_in[1].is_terminal)
    /\ ~rd_in[1].opts.no_processes
    /\ ~rd_in[1].opts.show_pid
    /\ ~rd_out[1].panic

\* the line of the last device
DeviceLine == Last(rd_out[1].lines)

\* C9: the entry of process 500 (no mapping entry, username "alice", command
\* "train.py", 2048 MB), rendered without color, is the segment
\* " alice:train.py(2048M)" when both command and username are requested and
\* " alice(2048M)" when neither is: every entry begins with a space, and the
\* username is shown whenever the command is not requested.
C9_ProcessSegment ==
    PopulatedPlain =>
        /\ rd_in[1].opts.show_cmd /\ rd_in[1].opts.show_user =>
               /\ format_process(Alice, rd_in[1].opts, FALSE, rd_in[1].colorize)
                      = " alice:train.py(2048M)"
               /\ EndsWith(DeviceLine, " MB | alice:train.py(2048M)")
        /\ ~rd_in[1].opts.show_cmd /\ ~rd_in[1].opts.show_user =>
               /\ format_process(Alice, rd_in[1].opts, FALSE, rd_in[1].colorize)
                      = " alice(2048M)"
               /\ EndsWith(DeviceLine, " MB | alice(2048M)")

\* C9 as stated, the space that begins an entry left aside: "(2048M)" alone
\* follows the memory field when neither command nor username is requested
C9_AsStated ==
    PopulatedPlain =>
        /\ rd_in[1].opts.show_cmd /\ rd_in[1].opts.show_user =>
               EndsWith(DeviceLine, " MB | alice:train.py(2048M)")
        /\ ~rd_in[1].opts.show_cmd /\ ~rd_in[1].opts.show_user =>
               \/ EndsWith(DeviceLine, " MB | (2048M)")
               \/ EndsWith(DeviceLine, " MB |(2048M)")

\* C9's case: the entry was rendered with neither command nor username asked
C9_Witness ==
    /\ PopulatedPlain
    /\ ~rd_in[1].opts.show_cmd /\ ~rd_in[1].opts.show_user
    /\ Len(rd_out[1].lines) >= 1

\* C10: for a Collection without devices print_formatted completes and its
\* only body line is "(No GPUs are available)", in yellow when color is
\* used; the header line precedes it unless the header is suppressed, so
\* that exactly one line is written exactly when no_header is set.
C10_NoGpus ==
    Rendered /\ rd_in[1].stats.gpus = <<>> =>
        LET opts == rd_in[1].opts
            use_color == UseColor(opts, rd_in[1].is_terminal)
            message == IF use_color /\ rd_in[1].colorize
                       THEN "^[[33m(No GPUs are available)^[[0m"
                       ELSE "(No GPUs are available)"
            lines == rd_out[1].lines
        IN  /\ ~rd_out[1].panic
            /\ Last(lines) = message
            /\ Len(lines) = IF opts.no_header THEN 1 ELSE 2
            /\ ~opts.no_header =>
                   lines[1] = Header(rd_in[1].stats, opts, use_color, rd_in[1].colorize)[1]

\* C10 as stated: exactly one line, the message (styled or not), whatever
\* the display options
C10_AsStated ==
    Rendered /\ rd_in[1].stats.gpus = <<>> =>
        /\ Len(rd_out[1].lines) = 1
        /\ rd_out[1].lines[1] \in {"(No GPUs are available)",
                                   "^[[33m(No GPUs are available)^[[0m"}

\* C10's case: a Collection without devices was rendered with its header
C10_Witness ==
    /\ Rendered
    /\ rd_in[1].stats.gpus = <<>>
    /\ ~rd_in[1].opts.no_header
    /\ Len(rd_out[1].lines) = 2

\* One device was rendered and the writing was not ended by a panic
OneLine ==
    /\ Rendered
    /\ Len(rd_in[1].stats.gpus) = 1
    /\ ~rd_out[1].panic

\* the options format_line is given: the width print_formatted settled on
LineOpts == [rd_in[1].opts EXCEPT !.gpuname_width = Some(GpuWidth(rd_in[1].stats, rd_in[1].opts))]

\* the line format_line gives for that device when processes are suppressed
UpToMemory(stat) ==
    format_line(stat, [LineOpts EXCEPT !.no_processes = TRUE],
                UseColor(rd_in[1].opts, rd_in[1].is_terminal), rd_in[1].colorize).val

\* the entries of a list of at most two processes, in list order
EntriesInOrder(list) ==
    LET entry(i) == format_process(list[i], rd_in[1].opts,
                                   UseColor(rd_in[1].opts, rd_in[1].is_terminal),
                                   rd_in[1].colorize)
    IN  IF Len(list) = 0 THEN ""
        ELSE IF Len(list) = 1 THEN entry(1)
        ELSE entry(1) \o entry(2)

\* C11: the line of a device ends with its memory field when processes are
\* suppressed; otherwise " |" follows the memory field and then exactly
\* " (Not Supported)" for an unsupported list, nothing for an empty list, and
\* one entry per process in list order for a populated list. So the lines of
\* an unsupported and of a supported-but-empty device, alike in every other
\* field, differ exactly when processes are not suppressed.
C11_ProcessSegment ==
    OneLine =>
        LET stat == rd_in[1].stats.gpus[1]
            opts == rd_in[1].opts
            upto == UpToMemory(stat)
            empty == format_line(SupportedEmpty, LineOpts,
                                 UseColor(opts, rd_in[1].is_terminal), rd_in[1].colorize)
        IN  /\ EndsWith(upto, " MB")
            /\ opts.no_processes => DeviceLine = upto
            /\ ~opts.no_processes /\ stat.processes = None =>
                   DeviceLine = upto \o " |" \o " (Not Supported)"
            /\ ~opts.no_processes /\ stat.processes = Some(<<>>) =>
                   DeviceLine = upto \o " |"
            /\ ~opts.no_processes /\ stat.processes # None =>
                   DeviceLine = upto \o " |" \o EntriesInOrder(stat.processes[1])
            /\ stat = Unsupported =>
                   /\ ~empty.panic
                   /\ (DeviceLine # empty.val) <=> ~opts.no_processes

\* C11's case: an unsupported device was rendered with its processes shown
C11_Witness ==
    /\ OneLine
    /\ rd_in[1].stats.gpus = <<Unsupported>>
    /\ ~rd_in[1].opts.no_processes
    /\ EndsWith(DeviceLine, " MB | (Not Supported)")

---------------------------------------------------------------------------
(* Properties of build_ngid_to_pid_mapping, checked under SpecMapping *)

\* C14: two builds of the mapping from the same process table yield the
\* same mapping, whatever the orders in which the directory entries are
\* enumerated, also when two host processes list the same namespace-local
\* id or when a namespace-local id of one process is the host pid of another.
C14_OrderIndependent ==
    bm_out # None => bm_out[1].first = bm_out[1].second

====
